---- MODULE Spec2Model ----
(***************************************************************************)
(* A model of package expando (expando.go): Expand, varInfo, readVarName,  *)
(* readDefaultValue and the map-backed Environment.                        *)
(*                                                                         *)
(* Strings and byte slices are sequences of byte values (ASCII codes).     *)
(* Indices i, j, w, n are Go's 0-based indices and lengths; At and Slice   *)
(* translate them to TLA+'s 1-based sequences.                             *)
(***************************************************************************)
EXTENDS Integers, Sequences, FiniteSets, TLC

VARIABLES tmpl, env, buf0, buf, i, j, dollar, pc, ret, err, lookups, data, out

vars == <<tmpl, env, buf0, buf, i, j, dollar, pc, ret, err, lookups, data, out>>

(***************************************************************************)
(* Bytes the code tests for, by their ASCII codes.                         *)
(***************************************************************************)
DOLLAR == 36
LBRACE == 123
RBRACE == 125
PIPE == 124
BACKSLASH == 92
UNDERSCORE == 95
LOWER_A == 97
LOWER_Z == 122
UPPER_A == 65
UPPER_Z == 90
DIGIT_0 == 48
DIGIT_9 == 57

\* Go's s[k]
At(s, k) == s[k + 1]

\* Go's s[a:b]
Slice(s, a, b) == SubSeq(s, a + 1, b)

\* Go's s[a:]
SliceFrom(s, a) == SubSeq(s, a + 1, Len(s))

(***************************************************************************)
(* The error values of expando.go:207-213, and Go's nil error.             *)
(***************************************************************************)
errNil == "nil"
errInvalidCharacter == "invalid character"
errInvalidStartingCharacter == "invalid starting character"
errUnterminated == "unterminated"
errEmptyString == "empty string"
errInvalidEscape == "invalid escape sequence"

validNameFirstChar(c) ==
    \/ (LOWER_A <= c /\ c <= LOWER_Z)
    \/ (UPPER_A <= c /\ c <= UPPER_Z)
    \/ c = UNDERSCORE

\* validNameChar without the digits
validNameCharNoDigits(c) == validNameFirstChar(c)

validNameChar(c) ==
    \/ validNameFirstChar(c)
    \/ (DIGIT_0 <= c /\ c <= DIGIT_9)

(***************************************************************************)
(* readVarName: the three early returns, then the loop from i = 1.         *)
(***************************************************************************)
RECURSIVE readVarNameLoop(_, _)
readVarNameLoop(d, k) ==
    IF k >= Len(d)
    THEN [name |-> <<>>, n |-> Len(d), err |-> errUnterminated]
    ELSE LET c == At(d, k) IN
         IF c = RBRACE \/ c = PIPE
         THEN [name |-> Slice(d, 0, k), n |-> k + 1, err |-> errNil]
         ELSE IF ~validNameChar(c)
         THEN [name |-> <<>>, n |-> k, err |-> errInvalidCharacter]
         ELSE readVarNameLoop(d, k + 1)

readVarName(d) ==
    IF d = <<>>
    THEN [name |-> <<>>, n |-> 0, err |-> errUnterminated]
    ELSE IF At(d, 0) = RBRACE \/ At(d, 0) = PIPE
    THEN [name |-> <<>>, n |-> 0, err |-> errEmptyString]
    ELSE IF ~validNameFirstChar(At(d, 0))
    THEN [name |-> <<>>, n |-> 0, err |-> errInvalidStartingCharacter]
    ELSE readVarNameLoop(d, 1)

(***************************************************************************)
(* readDefaultValue.  The first loop runs until a terminator (it returns)  *)
(* or an escape (it breaks, leaving i at the backslash) or the end.        *)
(***************************************************************************)
RECURSIVE readDefaultValueScan(_, _)
readDefaultValueScan(d, k) ==
    IF k >= Len(d)
    THEN [returned |-> FALSE, i |-> k]
    ELSE IF At(d, k) = BACKSLASH
    THEN [returned |-> FALSE, i |-> k]
    ELSE IF At(d, k) = RBRACE
    THEN [returned |-> TRUE, i |-> k]
    ELSE readDefaultValueScan(d, k + 1)

\* the second loop with the append of an escaped backslash left out
RECURSIVE readDefaultValueIterDropsBackslash(_, _, _, _)
readDefaultValueIterDropsBackslash(d, k, b, escaped) ==
    IF k >= Len(d)
    THEN [val |-> <<>>, n |-> k, err |-> errUnterminated]
    ELSE LET c == At(d, k) IN
         IF c = BACKSLASH
         THEN readDefaultValueIterDropsBackslash(d, k + 1, b, ~escaped)
         ELSE IF c = RBRACE /\ ~escaped
         THEN [val |-> b, n |-> k + 1, err |-> errNil]
         ELSE IF escaped /\ c # RBRACE
         THEN [val |-> <<>>, n |-> k, err |-> errInvalidEscape]
         ELSE readDefaultValueIterDropsBackslash(d, k + 1, Append(b, c), FALSE)

\* the second loop with "escaped = false" left out after an escaped brace
RECURSIVE readDefaultValueIterStaysEscaped(_, _, _, _)
readDefaultValueIterStaysEscaped(d, k, b, escaped) ==
    IF k >= Len(d)
    THEN [val |-> <<>>, n |-> k, err |-> errUnterminated]
    ELSE LET c == At(d, k) IN
         IF c = BACKSLASH
         THEN readDefaultValueIterStaysEscaped(d, k + 1,
                                   IF escaped THEN Append(b, c) ELSE b,
                                   ~escaped)
         ELSE IF c = RBRACE /\ ~escaped
         THEN [val |-> b, n |-> k + 1, err |-> errNil]
         ELSE IF escaped /\ c # RBRACE
         THEN [val |-> <<>>, n |-> k, err |-> errInvalidEscape]
         ELSE readDefaultValueIterStaysEscaped(d, k + 1, Append(b, c), escaped)

\* the second loop (label iter), with its buffer and escaped flag
RECURSIVE readDefaultValueIter(_, _, _, _)
readDefaultValueIter(d, k, b, escaped) ==
    IF k >= Len(d)
    THEN [val |-> <<>>, n |-> k, err |-> errUnterminated]
    ELSE LET c == At(d, k) IN
         IF c = BACKSLASH
         THEN readDefaultValueIter(d, k + 1,
                                   IF escaped THEN Append(b, c) ELSE b,
                                   ~escaped)
         ELSE IF c = RBRACE /\ ~escaped
         THEN [val |-> b, n |-> k + 1, err |-> errNil]
         ELSE IF escaped /\ c # RBRACE
         THEN [val |-> <<>>, n |-> k, err |-> errInvalidEscape]
         ELSE readDefaultValueIter(d, k + 1, Append(b, c), FALSE)

readDefaultValue(d) ==
    LET s == readDefaultValueScan(d, 0) IN
    IF s.returned
    THEN [val |-> Slice(d, 0, s.i), n |-> s.i + 1, err |-> errNil]
    ELSE IF s.i = Len(d)
    THEN [val |-> <<>>, n |-> s.i, err |-> errUnterminated]
    ELSE readDefaultValueIter(d, s.i, Slice(d, 0, s.i), FALSE)

(***************************************************************************)
(* varInfo                                                                 *)
(***************************************************************************)
\* varInfo returning the default's width alone
varInfoDefaultWidthOnly(d) ==
    LET nm == readVarName(d) IN
    IF nm.err # errNil
    THEN [name |-> <<>>, defaultValue |-> <<>>, n |-> nm.n, err |-> nm.err]
    ELSE IF At(d, nm.n - 1) = RBRACE
    THEN [name |-> nm.name, defaultValue |-> <<>>, n |-> nm.n, err |-> errNil]
    ELSE LET dv == readDefaultValue(SliceFrom(d, nm.n)) IN
         IF dv.err # errNil
         THEN [name |-> <<>>, defaultValue |-> <<>>, n |-> nm.n + dv.n,
               err |-> dv.err]
         ELSE [name |-> nm.name, defaultValue |-> dv.val, n |-> dv.n,
               err |-> errNil]

varInfo(d) ==
    LET nm == readVarName(d) IN
    IF nm.err # errNil
    THEN [name |-> <<>>, defaultValue |-> <<>>, n |-> nm.n, err |-> nm.err]
    ELSE IF At(d, nm.n - 1) = RBRACE
    THEN [name |-> nm.name, defaultValue |-> <<>>, n |-> nm.n, err |-> errNil]
    ELSE LET dv == readDefaultValue(SliceFrom(d, nm.n)) IN
         IF dv.err # errNil
         THEN [name |-> <<>>, defaultValue |-> <<>>, n |-> nm.n + dv.n,
               err |-> dv.err]
         ELSE [name |-> nm.name, defaultValue |-> dv.val, n |-> nm.n + dv.n,
               err |-> errNil]

(***************************************************************************)
(* MapEnvironment: a function from names to values.                        *)
(***************************************************************************)
\* a lookup that takes an empty value for a missing one
LookupEnvNonEmpty(m, key) ==
    IF key \in DOMAIN m /\ m[key] # <<>>
    THEN [val |-> m[key], ok |-> TRUE]
    ELSE [val |-> <<>>, ok |-> FALSE]

LookupEnv(m, key) ==
    IF key \in DOMAIN m
    THEN [val |-> m[key], ok |-> TRUE]
    ELSE [val |-> <<>>, ok |-> FALSE]

(***************************************************************************)
(* A []byte is nil or not; append of nothing to nil stays nil.             *)
(***************************************************************************)
NilBuf == [nil |-> TRUE, bytes |-> <<>>]

MakeBuf(bytes) == [nil |-> FALSE, bytes |-> bytes]

append(b, s) == [nil |-> b.nil /\ s = <<>>, bytes |-> b.bytes \o s]

NoErr == [position |-> 0, value |-> <<>>, err |-> errNil]

Min(a, b) == IF a <= b THEN a ELSE b

\* the error with the position counted from the "{"
invalidSyntaxErrFromBrace(t, jj, w, e) ==
    [position |-> w + 1,
     value |-> Slice(t, jj - 1, Min(Len(t), jj + w + 5)),
     err |-> e]

\* the invalidSyntaxErr built at expando.go:63-71
invalidSyntaxErr(t, jj, w, e) ==
    [position |-> w + 2,
     value |-> Slice(t, jj - 1, Min(Len(t), jj + w + 5)),
     err |-> e]

(***************************************************************************)
(* Expand.  A record s holds the locals of one call; each operator below   *)
(* is one arm of the switch in the loop body, including the loop's j++.    *)
(* A slice expression outside its bounds panics.                           *)
(***************************************************************************)
SliceOK(t, a, b) == 0 <= a /\ a <= b /\ b <= Len(t)

ExpandStart(t, m, b) ==
    [tmpl |-> t, env |-> m, buf |-> b, i |-> 0, j |-> 0, dollar |-> FALSE,
     pc |-> "loop", ret |-> NilBuf, err |-> NoErr, lookups |-> <<>>]

Panic(s) == [s EXCEPT !.pc = "panic"]

\* case '$', with i left on the second dollar
ExpandDollarKeepsSecond(s) ==
    IF ~s.dollar
    THEN [s EXCEPT !.dollar = TRUE, !.j = s.j + 1]
    ELSE IF ~SliceOK(s.tmpl, s.i, s.j)
    THEN Panic(s)
    ELSE [s EXCEPT !.dollar = FALSE,
                   !.buf = append(s.buf, Slice(s.tmpl, s.i, s.j)),
                   !.i = s.j,
                   !.j = s.j + 1]

\* case '$'
ExpandDollar(s) ==
    IF ~s.dollar
    THEN [s EXCEPT !.dollar = TRUE, !.j = s.j + 1]
    ELSE IF ~SliceOK(s.tmpl, s.i, s.j)
    THEN Panic(s)
    ELSE [s EXCEPT !.dollar = FALSE,
                   !.buf = append(s.buf, Slice(s.tmpl, s.i, s.j)),
                   !.i = s.j + 1,
                   !.j = s.j + 1]

\* case '{', the allocation of an absent buffer
ExpandAllocAlways(b) == MakeBuf(<<>>)

ExpandAlloc(b) == IF b.nil THEN MakeBuf(<<>>) ELSE b

\* case '{', the error return, handing back the buffer built so far
ExpandFailPartial(s, b, v) ==
    IF ~SliceOK(s.tmpl, s.j - 1, Min(Len(s.tmpl), s.j + v.n + 5))
    THEN Panic(s)
    ELSE [s EXCEPT !.buf = b,
                   !.ret = b,
                   !.err = invalidSyntaxErr(s.tmpl, s.j, v.n, v.err),
                   !.pc = "done"]

\* case '{', the error return
ExpandFail(s, b, v) ==
    IF ~SliceOK(s.tmpl, s.j - 1, Min(Len(s.tmpl), s.j + v.n + 5))
    THEN Panic(s)
    ELSE [s EXCEPT !.buf = b,
                   !.ret = NilBuf,
                   !.err = invalidSyntaxErr(s.tmpl, s.j, v.n, v.err),
                   !.pc = "done"]

\* case '{', the substitution with "j += w" left out
ExpandSubstituteNoSkip(s, b, v) ==
    LET r == LookupEnv(s.env, v.name) IN
    [s EXCEPT !.buf = append(b, IF r.ok THEN r.val ELSE v.defaultValue),
              !.lookups = Append(s.lookups, v.name),
              !.j = s.j + 1,
              !.i = s.j + 1,
              !.dollar = FALSE]

\* case '{', the substitution with j moved one byte past the closing brace
ExpandSubstituteSkipsOne(s, b, v) ==
    LET r == LookupEnv(s.env, v.name) IN
    [s EXCEPT !.buf = append(b, IF r.ok THEN r.val ELSE v.defaultValue),
              !.lookups = Append(s.lookups, v.name),
              !.j = s.j + v.n + 2,
              !.i = s.j + v.n + 2,
              !.dollar = FALSE]

\* case '{', the substitution: the lookup, the append, and the move of j to
\* the closing brace, of i past it, and the loop's j++
ExpandSubstitute(s, b, v) ==
    LET r == LookupEnv(s.env, v.name) IN
    [s EXCEPT !.buf = append(b, IF r.ok THEN r.val ELSE v.defaultValue),
              !.lookups = Append(s.lookups, v.name),
              !.j = s.j + v.n + 1,
              !.i = s.j + v.n + 1,
              !.dollar = FALSE]

\* case '{'
ExpandBrace(s) ==
    IF ~s.dollar
    THEN [s EXCEPT !.j = s.j + 1]
    ELSE IF ~SliceOK(s.tmpl, s.i, s.j - 1) \/ ~SliceOK(s.tmpl, s.j + 1, Len(s.tmpl))
    THEN Panic(s)
    ELSE LET b == append(ExpandAlloc(s.buf), Slice(s.tmpl, s.i, s.j - 1))
             v == varInfo(SliceFrom(s.tmpl, s.j + 1))
         IN  IF v.err # errNil
             THEN ExpandFail(s, b, v)
             ELSE ExpandSubstitute(s, b, v)

\* default, with the pending dollar left set
ExpandDefaultKeepsDollar(s) == [s EXCEPT !.j = s.j + 1]

\* default
ExpandDefault(s) == [s EXCEPT !.dollar = FALSE, !.j = s.j + 1]

\* after the loop
ExpandReturn(s) ==
    IF ~SliceOK(s.tmpl, s.i, Len(s.tmpl))
    THEN Panic(s)
    ELSE LET b == append(s.buf, SliceFrom(s.tmpl, s.i)) IN
         [s EXCEPT !.buf = b, !.ret = b, !.err = NoErr, !.pc = "done"]

ExpandIter(s) ==
    IF s.j < Len(s.tmpl)
    THEN CASE At(s.tmpl, s.j) = DOLLAR -> ExpandDollar(s)
           [] At(s.tmpl, s.j) = LBRACE -> ExpandBrace(s)
           [] OTHER -> ExpandDefault(s)
    ELSE ExpandReturn(s)

RECURSIVE ExpandLoop(_)
ExpandLoop(s) == IF s.pc # "loop" THEN s ELSE ExpandLoop(ExpandIter(s))

\* the whole call: what it returns and the lookups it made
Expand(t, m, b) ==
    LET s == ExpandLoop(ExpandStart(t, m, b)) IN
    [ret |-> s.ret, err |-> s.err, lookups |-> s.lookups, pc |-> s.pc]

(***************************************************************************)
(* Inputs.                                                                 *)
(***************************************************************************)
MaxTailLen == 4

MaxDataLen == 5

\* the bytes the tails of templates are made of: $ { } | \ _
Alphabet == {DOLLAR, LBRACE, RBRACE, PIPE, BACKSLASH, UNDERSCORE}

\* the bytes parser inputs are made of: } | \ $ a _ Z 0
DataAlphabet ==
    {RBRACE, PIPE, BACKSLASH, DOLLAR, LOWER_A, UNDERSCORE, UPPER_Z, DIGIT_0}

SeqsUpTo(S, n) == UNION {[1..k -> S] : k \in 0..n}

\* how a template may begin: with nothing, "$$", "${a}", "${a|" or "${_$"
Heads ==
    { <<>>,
      <<DOLLAR, DOLLAR>>,
      <<DOLLAR, LBRACE, LOWER_A, RBRACE>>,
      <<DOLLAR, LBRACE, LOWER_A, PIPE>>,
      <<DOLLAR, LBRACE, UNDERSCORE, DOLLAR>> }

\* every byte string of up to MaxTailLen bytes, alone and after each head
Templates == {h \o t : h \in Heads, t \in SeqsUpTo(Alphabet, MaxTailLen)}

\* providers: empty; one that finds a as the empty string and _ as "$$";
\* one that finds a as "${_}" and _ as "\}"
Envs ==
    { <<>>,
      (<<LOWER_A>> :> <<>>) @@ (<<UNDERSCORE>> :> <<DOLLAR, DOLLAR>>),
      (<<LOWER_A>> :> <<DOLLAR, LBRACE, UNDERSCORE, RBRACE>>)
          @@ (<<UNDERSCORE>> :> <<BACKSLASH, RBRACE>>) }

\* caller's buffers: absent, and one holding "${"
Bufs == {NilBuf, MakeBuf(<<DOLLAR, LBRACE>>)}

NoOut == [fn |-> "none", name |-> <<>>, defaultValue |-> <<>>, n |-> 0,
          err |-> errNil]

(***************************************************************************)
(* The state machine of one call to Expand.                                *)
(***************************************************************************)
Cur ==
    [tmpl |-> tmpl, env |-> env, buf |-> buf, i |-> i, j |-> j,
     dollar |-> dollar, pc |-> pc, ret |-> ret, err |-> err,
     lookups |-> lookups]

Becomes(s) ==
    /\ tmpl' = s.tmpl
    /\ env' = s.env
    /\ buf' = s.buf
    /\ i' = s.i
    /\ j' = s.j
    /\ dollar' = s.dollar
    /\ pc' = s.pc
    /\ ret' = s.ret
    /\ err' = s.err
    /\ lookups' = s.lookups
    /\ UNCHANGED <<buf0, data, out>>

Init ==
    /\ tmpl \in Templates
    /\ env \in Envs
    /\ buf0 \in Bufs
    /\ buf = buf0
    /\ i = 0
    /\ j = 0
    /\ dollar = FALSE
    /\ pc = "loop"
    /\ ret = NilBuf
    /\ err = NoErr
    /\ lookups = <<>>
    /\ data = <<>>
    /\ out = NoOut

InLoop == pc = "loop" /\ j < Len(tmpl)

PendingDollar ==
    /\ InLoop /\ At(tmpl, j) = DOLLAR /\ ~dollar
    /\ Becomes(ExpandIter(Cur))

LiteralDollar ==
    /\ InLoop /\ At(tmpl, j) = DOLLAR /\ dollar
    /\ Becomes(ExpandIter(Cur))

PlainBrace ==
    /\ InLoop /\ At(tmpl, j) = LBRACE /\ ~dollar
    /\ Becomes(ExpandIter(Cur))

ExpandVar ==
    /\ InLoop /\ At(tmpl, j) = LBRACE /\ dollar
    /\ varInfo(SliceFrom(tmpl, j + 1)).err = errNil
    /\ Becomes(ExpandIter(Cur))

SyntaxError ==
    /\ InLoop /\ At(tmpl, j) = LBRACE /\ dollar
    /\ varInfo(SliceFrom(tmpl, j + 1)).err # errNil
    /\ Becomes(ExpandIter(Cur))

OtherByte ==
    /\ InLoop /\ At(tmpl, j) \notin {DOLLAR, LBRACE}
    /\ Becomes(ExpandIter(Cur))

Return ==
    /\ pc = "loop" /\ j >= Len(tmpl)
    /\ Becomes(ExpandIter(Cur))

Next ==
    \/ PendingDollar
    \/ LiteralDollar
    \/ PlainBrace
    \/ ExpandVar
    \/ SyntaxError
    \/ OtherByte
    \/ Return

Spec == Init /\ [][Next]_vars

(***************************************************************************)
(* The parsers on their own: one call of readVarName, readDefaultValue or  *)
(* varInfo on an arbitrary input.                                          *)
(***************************************************************************)
ParseInit ==
    /\ data \in SeqsUpTo(DataAlphabet, MaxDataLen)
    /\ out = NoOut
    /\ pc = "call"
    /\ tmpl = <<>>
    /\ env = <<>>
    /\ buf0 = NilBuf
    /\ buf = NilBuf
    /\ i = 0
    /\ j = 0
    /\ dollar = FALSE
    /\ ret = NilBuf
    /\ err = NoErr
    /\ lookups = <<>>

CallReadVarName ==
    /\ pc = "call"
    /\ pc' = "returned"
    /\ LET r == readVarName(data) IN
       out' = [fn |-> "readVarName", name |-> r.name, defaultValue |-> <<>>,
               n |-> r.n, err |-> r.err]
    /\ UNCHANGED <<tmpl, env, buf0, buf, i, j, dollar, ret, err, lookups, data>>

CallReadDefaultValue ==
    /\ pc = "call"
    /\ pc' = "returned"
    /\ LET r == readDefaultValue(data) IN
       out' = [fn |-> "readDefaultValue", name |-> <<>>,
               defaultValue |-> r.val, n |-> r.n, err |-> r.err]
    /\ UNCHANGED <<tmpl, env, buf0, buf, i, j, dollar, ret, err, lookups, data>>

CallVarInfo ==
    /\ pc = "call"
    /\ pc' = "returned"
    /\ LET r == varInfo(data) IN
       out' = [fn |-> "varInfo", name |-> r.name,
               defaultValue |-> r.defaultValue, n |-> r.n, err |-> r.err]
    /\ UNCHANGED <<tmpl, env, buf0, buf, i, j, dollar, ret, err, lookups, data>>

ParseNext ==
    \/ CallReadVarName
    \/ CallReadDefaultValue
    \/ CallVarInfo

ParseSpec == ParseInit /\ [][ParseNext]_vars

(***************************************************************************)
(* The placeholder grammar, stated on its own: the byte classes of names,  *)
(* the name an input starts with, and a one-pass un-escaper of defaults.    *)
(***************************************************************************)
Letters == (LOWER_A..LOWER_Z) \cup (UPPER_A..UPPER_Z)

Digits == DIGIT_0..DIGIT_9

NameFirstBytes == Letters \cup {UNDERSCORE}

NameBytes == NameFirstBytes \cup Digits

Delimiters == {RBRACE, PIPE}

Least(S) == CHOOSE k \in S : \A m \in S : k <= m

\* offset of the first byte after byte 0 that is no name byte; Len(d) if none
NameStop(d) ==
    LET S == {k \in 1..(Len(d) - 1) : At(d, k) \notin NameBytes} IN
    IF S = {} THEN Len(d) ELSE Least(S)

GrammarName(d) ==
    IF Len(d) = 0
    THEN [name |-> <<>>, n |-> 0, err |-> errUnterminated]
    ELSE IF At(d, 0) \in Delimiters
    THEN [name |-> <<>>, n |-> 0, err |-> errEmptyString]
    ELSE IF At(d, 0) \notin NameFirstBytes
    THEN [name |-> <<>>, n |-> 0, err |-> errInvalidStartingCharacter]
    ELSE LET k == NameStop(d) IN
         IF k = Len(d)
         THEN [name |-> <<>>, n |-> Len(d), err |-> errUnterminated]
         ELSE IF At(d, k) \in Delimiters
         THEN [name |-> Slice(d, 0, k), n |-> k + 1, err |-> errNil]
         ELSE [name |-> <<>>, n |-> k, err |-> errInvalidCharacter]

\* one pass, two bytes at a time on a backslash
RECURSIVE Unescape(_, _, _)
Unescape(d, k, acc) ==
    IF k >= Len(d)
    THEN [val |-> <<>>, n |-> Len(d), err |-> errUnterminated]
    ELSE IF At(d, k) = RBRACE
    THEN [val |-> acc, n |-> k + 1, err |-> errNil]
    ELSE IF At(d, k) # BACKSLASH
    THEN Unescape(d, k + 1, Append(acc, At(d, k)))
    ELSE IF k + 1 >= Len(d)
    THEN [val |-> <<>>, n |-> Len(d), err |-> errUnterminated]
    ELSE IF At(d, k + 1) \in {BACKSLASH, RBRACE}
    THEN Unescape(d, k + 2, Append(acc, At(d, k + 1)))
    ELSE [val |-> <<>>, n |-> k + 1, err |-> errInvalidEscape]

GrammarDefault(d) == Unescape(d, 0, <<>>)

Bytes(s) == {s[k] : k \in 1..Len(s)}

ReturnedFrom(f) == pc = "returned" /\ out.fn = f

C10_ReadDefaultValueGrammar ==
    ReturnedFrom("readDefaultValue") =>
        [val |-> out.defaultValue, n |-> out.n, err |-> out.err]
            = GrammarDefault(data)

\* a value read on the slow path that holds both an unescaped-to } and a \
C10_Witness ==
    /\ ReturnedFrom("readDefaultValue")
    /\ out.err = errNil
    /\ RBRACE \in Bytes(out.defaultValue)
    /\ BACKSLASH \in Bytes(out.defaultValue)

(***************************************************************************)
(* The template grammar, stated on its own: a scan that looks two bytes    *)
(* ahead ("$$", "${") instead of keeping a pending-dollar flag.  It gives  *)
(* the expansion, the names of the placeholders in order, and the place    *)
(* (at: offset of the "$"), width and kind of the first malformed one.     *)
(***************************************************************************)
GrammarVar(d) ==
    LET nm == GrammarName(d) IN
    IF nm.err # errNil
    THEN [name |-> <<>>, defaultValue |-> <<>>, n |-> nm.n, err |-> nm.err]
    ELSE IF At(d, Len(nm.name)) = RBRACE
    THEN [name |-> nm.name, defaultValue |-> <<>>, n |-> Len(nm.name) + 1,
          err |-> errNil]
    ELSE LET dv == GrammarDefault(SliceFrom(d, Len(nm.name) + 1)) IN
         IF dv.err # errNil
         THEN [name |-> <<>>, defaultValue |-> <<>>,
               n |-> Len(nm.name) + 1 + dv.n, err |-> dv.err]
         ELSE [name |-> nm.name, defaultValue |-> dv.val,
               n |-> Len(nm.name) + 1 + dv.n, err |-> errNil]

\* the provider's value for a name, or the fallback when it has none
ValueOr(m, name, fallback) == IF name \in DOMAIN m THEN m[name] ELSE fallback

Before(b, ns, r) == [r EXCEPT !.bytes = b \o @, !.names = ns \o @]

RECURSIVE Scan(_, _, _)
Scan(t, k, m) ==
    IF k >= Len(t)
    THEN [bytes |-> <<>>, names |-> <<>>, bad |-> FALSE, at |-> 0, w |-> 0,
          err |-> errNil]
    ELSE IF At(t, k) = DOLLAR /\ k + 1 < Len(t) /\ At(t, k + 1) = DOLLAR
    THEN Before(<<DOLLAR>>, <<>>, Scan(t, k + 2, m))
    ELSE IF At(t, k) = DOLLAR /\ k + 1 < Len(t) /\ At(t, k + 1) = LBRACE
    THEN LET v == GrammarVar(SliceFrom(t, k + 2)) IN
         IF v.err # errNil
         THEN [bytes |-> <<>>, names |-> <<>>, bad |-> TRUE, at |-> k,
               w |-> v.n, err |-> v.err]
         ELSE Before(ValueOr(m, v.name, v.defaultValue), <<v.name>>,
                     Scan(t, k + 2 + v.n, m))
    ELSE Before(<<At(t, k)>>, <<>>, Scan(t, k + 1, m))

Done == pc = "done"

Failed == pc = "done" /\ err.err # errNil

Succeeded == pc = "done" /\ err.err = errNil

IsPrefix(a, b) == Len(a) <= Len(b) /\ SubSeq(b, 1, Len(a)) = a

\* C1: when Expand accepts the template, its output is the template with each
\* well-formed placeholder replaced by the provider's value when the name is
\* found (the empty value included) and by the un-escaped default (empty when
\* there is none) otherwise.
C1_PlaceholdersReplaced ==
    Succeeded => ret.bytes = buf0.bytes \o Scan(tmpl, 0, env).bytes

\* an accepted template whose placeholder was not found and whose default
\* was un-escaped to a }
C1_Witness ==
    /\ Succeeded
    /\ Len(lookups) = 1
    /\ lookups[1] \notin DOMAIN env
    /\ BACKSLASH \in Bytes(tmpl)
    /\ ret.bytes = buf0.bytes \o <<RBRACE>>

(***************************************************************************)
(* C2: the first run of "$" of the template, what precedes it (pre, free   *)
(* of "$") and what follows it (rest).                                     *)
(***************************************************************************)
HasDollar(t) == DOLLAR \in Bytes(t)

FirstDollar(t) == Least({k \in 0..(Len(t) - 1) : At(t, k) = DOLLAR})

RunLen(t, p) ==
    Least({n \in 1..(Len(t) - p) :
              p + n = Len(t) \/ At(t, p + n) # DOLLAR})

Dollars(n) == [k \in 1..n |-> DOLLAR]

\* rest is "{name}" followed by anything
BracedName(rest) ==
    /\ Len(rest) > 0
    /\ At(rest, 0) = LBRACE
    /\ LET v == GrammarVar(SliceFrom(rest, 1)) IN
       v.err = errNil /\ v.n = Len(v.name) + 1

\* the call's outcome is: fails as r does, or succeeds with these bytes and
\* lookups before r's
OutcomeIs(bytes, names, r) ==
    /\ err = r.err
    /\ err.err = errNil =>
          /\ ret.bytes = buf0.bytes \o bytes \o r.ret.bytes
          /\ lookups = names \o r.lookups

\* C2: a run of n "$" not followed by "{" yields ceil(n/2) "$"; followed by
\* "{name}" it yields n/2 "$" and the literal "{name}" with no lookup when n
\* is even, and (n-1)/2 "$" and the expansion of "${name}" when n is odd.
C2_DollarRuns ==
    (Done /\ HasDollar(tmpl)) =>
        LET p == FirstDollar(tmpl)
            n == RunLen(tmpl, p)
            pre == Slice(tmpl, 0, p)
            rest == SliceFrom(tmpl, p + n)
        IN  IF Len(rest) = 0 \/ At(rest, 0) # LBRACE
            THEN OutcomeIs(pre \o Dollars((n + 1) \div 2), <<>>,
                           Expand(rest, env, NilBuf))
            ELSE BracedName(rest) =>
                 LET name == GrammarVar(SliceFrom(rest, 1)).name
                     after == Expand(SliceFrom(rest, Len(name) + 2), env, NilBuf)
                 IN  IF n % 2 = 0
                     THEN OutcomeIs(pre \o Dollars(n \div 2)
                                        \o <<LBRACE>> \o name \o <<RBRACE>>,
                                    <<>>, after)
                     ELSE OutcomeIs(pre \o Dollars((n - 1) \div 2)
                                        \o ValueOr(env, name, <<>>),
                                    <<name>>, after)

\* a run of three "$" before "{name}", expanded
C2_Witness ==
    /\ Succeeded
    /\ HasDollar(tmpl)
    /\ RunLen(tmpl, FirstDollar(tmpl)) = 3
    /\ BracedName(SliceFrom(tmpl, FirstDollar(tmpl) + 3))
    /\ lookups # <<>>

\* no "$" of t is immediately followed by "$" or "{"
NoDollarPair(t) ==
    \A k \in 0..(Len(t) - 2) :
        At(t, k) = DOLLAR => At(t, k + 1) \notin {DOLLAR, LBRACE}

\* C3: a template in which no "$" is immediately followed by "$" or "{" is
\* expanded without error and without any lookup, to itself.
C3_LiteralTemplates ==
    (pc \in {"loop", "done"} /\ NoDollarPair(tmpl)) =>
        /\ err.err = errNil
        /\ lookups = <<>>
        /\ Done => ret.bytes = buf0.bytes \o tmpl

\* such a template with a "$" inside, a trailing "$" and a "{", expanded
C3_Witness ==
    /\ Succeeded
    /\ NoDollarPair(tmpl)
    /\ Len(tmpl) >= 4
    /\ At(tmpl, Len(tmpl) - 1) = DOLLAR
    /\ At(tmpl, 0) = DOLLAR
    /\ LBRACE \in Bytes(tmpl)

\* C4: a successful call with a caller's buffer returns that buffer's bytes
\* followed by what the call returns with no buffer; the buffer's bytes stay
\* a prefix of buf throughout.
C4_AppendsToBuffer ==
    /\ pc \in {"loop", "done"} => IsPrefix(buf0.bytes, buf.bytes)
    /\ Succeeded =>
          LET r == Expand(tmpl, env, NilBuf) IN
          /\ r.err.err = errNil
          /\ ret.bytes = buf0.bytes \o r.ret.bytes

\* a non-empty buffer was supplied and a placeholder's value appended to it
C4_Witness ==
    /\ Succeeded
    /\ buf0.bytes # <<>>
    /\ lookups # <<>>
    /\ ValueOr(env, lookups[1], <<>>) # <<>>
    /\ Len(ret.bytes) > Len(buf0.bytes) + 2

\* C5: Expand fails exactly when the scan meets a malformed "${"; it then
\* returns a nil buffer, and the error is that of the leftmost malformed
\* placeholder.
C5_AllOrNothing ==
    Done =>
        LET g == Scan(tmpl, 0, env) IN
        /\ (err.err # errNil) <=> g.bad
        /\ err.err # errNil =>
              /\ ret = NilBuf
              /\ err.err = g.err
              /\ j = g.at + 1

\* a failure after an earlier placeholder was expanded into a caller's buffer
C5_Witness ==
    /\ Failed
    /\ lookups # <<>>
    /\ ~buf0.nil
    /\ Len(buf.bytes) > Len(buf0.bytes)

\* C6: in a syntax error, position is the failing width + 2, the offset of
\* the offending byte (or of the end of input) from the "$"; value is
\* tmpl[j-1 : min(len(tmpl), j+w+5)], so it starts with "${", holds the
\* position, and goes at most 4 bytes past it.
C6_ErrorPositionAndValue ==
    Failed =>
        LET w == Scan(tmpl, 0, env).w IN
        /\ err.position = w + 2
        /\ j - 1 + err.position <= Len(tmpl)
        /\ err.value = Slice(tmpl, j - 1, Min(Len(tmpl), j + w + 5))
        /\ Slice(err.value, 0, 2) = <<DOLLAR, LBRACE>>
        /\ 2 <= err.position
        /\ err.position <= Len(err.value)
        /\ Len(err.value) <= err.position + 4

\* an error past the first byte of the name whose preview is cut short of
\* the end of the template
C6_Witness ==
    /\ Failed
    /\ err.position > 2
    /\ Len(err.value) = err.position + 4
    /\ j - 1 + Len(err.value) < Len(tmpl)

\* C7: the lookups of a call are the names of the well-formed placeholders
\* of the template before the first malformed one, once each and in order;
\* nothing is looked up for a malformed placeholder or for text inside a
\* default or an inserted value.
C7_LookupsAreThePlaceholders ==
    pc \in {"loop", "done"} =>
        LET names == Scan(tmpl, 0, env).names IN
        /\ IsPrefix(lookups, names)
        /\ Done => lookups = names

\* one lookup was made although the default in the template holds "${_" and
\* the value inserted is "${_}"
C7_Witness ==
    /\ Done
    /\ Len(lookups) = 1
    /\ Len(tmpl) = 8
    /\ LET ph == <<DOLLAR, LBRACE, UNDERSCORE, RBRACE>> IN
       /\ SubSeq(tmpl, 5, 8) = ph
       /\ ret.bytes = buf0.bytes \o ph

\* C9: no lookup is made for a name whose first byte is outside [a-zA-Z].
C9_NamesStartWithLetter ==
    \A k \in 1..Len(lookups) : At(lookups[k], 0) \in Letters

\* C11: a successful varInfo returns a width w with 1 <= w <= len(data),
\* data[w-1] = "}", and w > len(name) + len(defaultValue): w = len(name) + 1
\* when the name ends at "}", w >= len(name) + len(defaultValue) + 2 when a
\* default follows; a successful readDefaultValue consumes more bytes than
\* the value it returns holds.
C11_ConsumedExceedsParsed ==
    /\ (ReturnedFrom("varInfo") /\ out.err = errNil) =>
          /\ 1 <= out.n
          /\ out.n <= Len(data)
          /\ At(data, out.n - 1) = RBRACE
          /\ out.n > Len(out.name) + Len(out.defaultValue)
          /\ IF At(data, Len(out.name)) = RBRACE
             THEN out.n = Len(out.name) + 1 /\ out.defaultValue = <<>>
             ELSE out.n >= Len(out.name) + Len(out.defaultValue) + 2
    /\ (ReturnedFrom("readDefaultValue") /\ out.err = errNil) =>
          out.n > Len(out.defaultValue)

\* varInfo succeeded with a non-empty default that needed un-escaping
C11_Witness ==
    /\ ReturnedFrom("varInfo")
    /\ out.err = errNil
    /\ out.defaultValue # <<>>
    /\ out.n > Len(out.name) + Len(out.defaultValue) + 2

\* C12: on a non-empty input, each error kind of varInfo is justified by the
\* input: Unterminated only when every "}" follows a backslash and data[0]
\* is no "}"; EmptyString only when data[0] is "}" or "|";
\* InvalidStartingCharacter only when data[0] is no first name byte;
\* InvalidCharacter only when w < len(data) and data[w] is no name byte.
C12_ErrorKindsJustified ==
    (ReturnedFrom("varInfo") /\ data # <<>>) =>
        /\ out.err = errUnterminated =>
              /\ \A k \in 1..(Len(data) - 1) :
                    At(data, k) = RBRACE => At(data, k - 1) = BACKSLASH
              /\ At(data, 0) # RBRACE
        /\ out.err = errEmptyString => At(data, 0) \in Delimiters
        /\ out.err = errInvalidStartingCharacter =>
              At(data, 0) \notin NameFirstBytes
        /\ out.err = errInvalidCharacter =>
              /\ out.n < Len(data)
              /\ At(data, out.n) \notin NameBytes

\* an unterminated default although the input holds a "}"
C12_Witness ==
    /\ ReturnedFrom("varInfo")
    /\ out.err = errUnterminated
    /\ RBRACE \in Bytes(data)
    /\ out.n = Len(data)

\* the scan's indices between two iterations of the loop, and at the return
ScanInBounds ==
    /\ pc # "panic"
    /\ pc \in {"loop", "done"} => (0 <= i /\ i <= j /\ j <= Len(tmpl))
    /\ (pc = "loop" /\ dollar) =>
          (j >= 1 /\ At(tmpl, j - 1) = DOLLAR /\ i <= j - 1)

\* an iteration that stays in the loop moves j forward
ScanAdvances == (pc = "loop" /\ pc' = "loop") => j' > j

\* an iteration that made a lookup leaves j and i just past the closing
\* brace: in the code, j on the brace and i = j + 1 before the loop's j++
ScanResumesPastBrace ==
    lookups' # lookups =>
        /\ j' - 1 > j
        /\ At(tmpl, j' - 1) = RBRACE
        /\ i' = j'
        /\ i' <= Len(tmpl)

\* C13: the scan never reads or slices out of range, and it ends because
\* len(tmpl) - j is never negative and shrinks with every iteration: between
\* iterations 0 <= i <= j <= len(tmpl); a pending dollar means tmpl[j-1] is
\* "$" and i <= j-1; j grows with every iteration; after a successful
\* placeholder j is on its closing "}" and i = j+1 <= len(tmpl).
C13_ScanStaysInRange ==
    /\ []ScanInBounds
    /\ [][ScanAdvances /\ ScanResumesPastBrace]_vars

\* a dollar is pending at the end of the template, right after a placeholder
\* was expanded
C13_Witness ==
    /\ pc = "loop"
    /\ dollar
    /\ lookups # <<>>
    /\ i = j - 1
    /\ j = Len(tmpl)
    /\ At(tmpl, i - 1) = RBRACE

====
